---- MODULE Spec2Model ----
(***************************************************************************)
(* keystolyrics.py: convert_chart and its lyric sources.                   *)
(*                                                                         *)
(* Text is modelled as sequences of one-character strings, so that the     *)
(* regular expressions, strip(), split(), int() and format() of the source *)
(* are computed and not assumed.  A file is the sequence of the lines that *)
(* readline() returns; the empty line <<>> is readline()'s end of file.    *)
(***************************************************************************)
EXTENDS Integers, Sequences, FiniteSets, TLC

VARIABLES
    pc,             \* position of convert_chart (its read loop), "done" or "error"
    chart_text,     \* the chart file: its lines when it is given whole (given), or
                    \* not given, and then its lines are chosen as they are read
    file_in,        \* the lines readline() has returned from the chart so far
    eof_in,         \* TRUE once readline() on the chart has returned ""
    file_out,       \* the characters written to the output stream
    global_events,  \* the event buffer of convert_chart
    diff_text,      \* the buffered text around the target section
    lyric_text,     \* the lines of the lyric file as it was opened
    lyric_file,     \* the lyric source: kind, unread lines, line, syllable_buffer
    calls,          \* the calls made on the lyric source, with what they returned
    err             \* the exception that ended the run, "none" otherwise

vars == <<pc, chart_text, file_in, eof_in, file_out, global_events, diff_text, lyric_text, lyric_file,
          calls, err>>

----------------------------------------------------------------------------
(* Bounds of the model *)

MaxLines == 11      \* chart lines read in one run
MaxCopied == 2      \* lines among them that are copied (echoed or stored), not parsed
MaxEventLines == 2  \* event lines among them
MaxOtherNotes == 1  \* notes of other lanes, S lines and bare E lines among them
MaxCalls == 5       \* calls on a lyric source driven directly (SpecLyric)
MaxLen == 4         \* characters of a lyric line drawn from the alphabet (SpecTokens)
MaxNotes == 3       \* notes of the target section of a chart given whole (SpecSilent)

----------------------------------------------------------------------------
(* Characters and regular expressions *)

WS == {" ", "\t", "\n"}
Digits == {"0", "1", "2", "3", "4", "5", "6", "7", "8", "9"}
Letters == {"a", "b", "c", "d", "e", "f", "g", "h", "i", "j", "k", "l", "m",
            "n", "o", "p", "q", "r", "s", "t", "u", "v", "w", "x", "y", "z",
            "A", "B", "C", "D", "E", "F", "G", "H", "I", "J", "K", "L", "M",
            "N", "O", "P", "Q", "R", "S", "T", "U", "V", "W", "X", "Y", "Z"}

\* Does character ch belong to the class of pattern item p ?
InCls(p, ch) ==
    CASE p.k = "lit"  -> ch = p.ch
      [] p.k = "ws"   -> ch \in WS                          \* \s
      [] p.k = "d"    -> ch \in Digits                      \* \d
      [] p.k = "lane" -> ch \in {"1", "2", "3"}             \* [1-3]
      [] p.k = "NS"   -> ch \in {"N", "S"}                  \* [NS]
      [] p.k = "nq"   -> ch # "\""                          \* [^"]
      [] p.k = "word" -> ch \in Letters \cup Digits \cup {"_"}  \* [a-zA-Z\d_]

Star(k) == <<[k |-> k, ch |-> "", r |-> "*"]>>
Plus(k) == <<[k |-> k, ch |-> "", r |-> "+"]>>
One(k)  == <<[k |-> k, ch |-> "", r |-> "1"]>>
Lit(s)  == [i \in 1..Len(s) |-> [k |-> "lit", ch |-> s[i], r |-> "1"]]

\* re.fullmatch of a pattern (a sequence of items) on the text s
RECURSIVE FullMatch(_, _)
FullMatch(pat, s) ==
    IF pat = <<>> THEN s = <<>>
    ELSE LET p == Head(pat) IN
         CASE p.r = "1" -> /\ s # <<>>
                           /\ InCls(p, Head(s))
                           /\ FullMatch(Tail(pat), Tail(s))
           [] p.r = "*" -> \/ FullMatch(Tail(pat), s)
                           \/ /\ s # <<>>
                              /\ InCls(p, Head(s))
                              /\ FullMatch(pat, Tail(s))
           [] p.r = "+" -> /\ s # <<>>
                           /\ InCls(p, Head(s))
                           /\ FullMatch(<<[p EXCEPT !.r = "*"]>> \o Tail(pat), Tail(s))

\* str.strip()
RECURSIVE LStrip(_)
LStrip(s) == IF s # <<>> /\ Head(s) \in WS THEN LStrip(Tail(s)) ELSE s

RECURSIVE RStrip(_)
RStrip(s) == IF s # <<>> /\ s[Len(s)] \in WS THEN RStrip(SubSeq(s, 1, Len(s) - 1)) ELSE s

Strip(s) == RStrip(LStrip(s))

\* the longest prefix of s made of characters of the set cs
RECURSIVE TakeWhile(_, _)
TakeWhile(s, cs) ==
    IF s # <<>> /\ Head(s) \in cs THEN <<Head(s)>> \o TakeWhile(Tail(s), cs) ELSE <<>>

\* s without its prefix up to and including the first occurrence of ch
RECURSIVE After(_, _)
After(s, ch) == IF s = <<>> THEN <<>> ELSE IF Head(s) = ch THEN Tail(s) ELSE After(Tail(s), ch)

\* int() of a string of digits
DigitValue(ch) ==
    CASE ch = "0" -> 0 [] ch = "1" -> 1 [] ch = "2" -> 2 [] ch = "3" -> 3 [] ch = "4" -> 4
      [] ch = "5" -> 5 [] ch = "6" -> 6 [] ch = "7" -> 7 [] ch = "8" -> 8 [] ch = "9" -> 9

RECURSIVE ToInt(_)
ToInt(s) == IF s = <<>> THEN 0 ELSE 10 * ToInt(SubSeq(s, 1, Len(s) - 1)) + DigitValue(s[Len(s)])

\* "{}".format() of a non-negative int
DigitChar(d) ==
    CASE d = 0 -> "0" [] d = 1 -> "1" [] d = 2 -> "2" [] d = 3 -> "3" [] d = 4 -> "4"
      [] d = 5 -> "5" [] d = 6 -> "6" [] d = 7 -> "7" [] d = 8 -> "8" [] d = 9 -> "9"

RECURSIVE FormatInt(_)
FormatInt(n) == IF n < 10 THEN <<DigitChar(n)>> ELSE FormatInt(n \div 10) \o <<DigitChar(n % 10)>>

\* the concatenation of a sequence of texts
RECURSIVE Flatten(_)
Flatten(ts) == IF ts = <<>> THEN <<>> ELSE Head(ts) \o Flatten(Tail(ts))

----------------------------------------------------------------------------
(* The lyric sources: LyricFile and DummyLyricFile *)

\* Each operation yields the source after the call (lf), the exception it
\* raised (err, "none" when it returned) and the value it returned (ret).
Result(lf, e, ret) == [lf |-> lf, err |-> e, ret |-> ret]

\* blank_line = re.compile(r"\s*\n")
blank_line == Star("ws") \o Lit(<<"\n">>)

\* file.readline(): the next line, "" at the end of the file
ReadLine(file) ==
    IF file = <<>> THEN [line |-> <<>>, rest |-> <<>>]
    ELSE [line |-> Head(file), rest |-> Tail(file)]

\* the read loop of start_line: read lines, counting them, until one is not blank
RECURSIVE SkipBlankLines(_, _)
SkipBlankLines(file, n) ==
    LET r == ReadLine(file) IN
    IF FullMatch(blank_line, r.line) THEN SkipBlankLines(r.rest, n + 1)
    ELSE [line |-> r.line, rest |-> r.rest, n |-> n + 1]

RECURSIVE DropWhile(_, _)
DropWhile(s, cs) == IF s # <<>> /\ Head(s) \in cs THEN DropWhile(Tail(s), cs) ELSE s

\* re.split: cut s at every separator; a separator is one character of cs, or
\* (runs) a maximal run of them.  cur is the piece being collected.
RECURSIVE SplitAcc(_, _, _, _)
SplitAcc(s, cs, runs, cur) ==
    IF s = <<>> THEN <<cur>>
    ELSE IF Head(s) \in cs
         THEN <<cur>> \o SplitAcc(IF runs THEN DropWhile(Tail(s), cs) ELSE Tail(s), cs, runs, <<>>)
         ELSE SplitAcc(Tail(s), cs, runs, Append(cur, Head(s)))

\* word_boundary_split cutting at every whitespace character, not at runs
word_boundary_split_Single(line) == SplitAcc(line, WS, FALSE, <<>>)

\* word_boundary = re.compile(r"\s+") ;  word_boundary.split(line)
word_boundary_split(line) == SplitAcc(line, WS, TRUE, <<>>)

\* syllable_boundary = re.compile(r"-") ;  syllable_boundary.split(word)
syllable_boundary_split(word) == SplitAcc(word, {"-"}, FALSE, <<>>)

\* AppendDashes with the dash appended to the last syllable of the word too
AppendDashes_ToAll(word) == [i \in 1..Len(word) |-> word[i] \o <<"-">>]

\* for i in range(0, len(word) - 1): word[i] += "-"
AppendDashes(word) ==
    [i \in 1..Len(word) |-> IF i < Len(word) THEN word[i] \o <<"-">> ELSE word[i]]

\* the syllables start_line takes from a line it has read
Syllables(line) ==
    LET stripped == Strip(line)
        ws == word_boundary_split(stripped)
        words == [i \in 1..Len(ws) |-> AppendDashes(syllable_boundary_split(ws[i]))]
    IN  Flatten(words)

start_line(lf, expect_eof) ==
    IF lf.kind = "dummy" THEN Result(lf, "none", <<>>)
    ELSE LET r == SkipBlankLines(lf.file, lf.line)
             read == [lf EXCEPT !.file = r.rest, !.line = r.n]
         IN  IF r.line = <<>>
             THEN IF expect_eof THEN Result(read, "none", <<>>)
                  ELSE Result(read, "NotEnoughLines", <<>>)
             ELSE Result([read EXCEPT !.syllable_buffer = @ \o Syllables(r.line)],
                         "none", <<>>)

\* next_syllable returning an empty syllable from an empty queue, not raising
next_syllable_NoRaise(lf) ==
    IF lf.kind = "dummy" \/ Len(lf.syllable_buffer) <= 0 THEN Result(lf, "none", <<>>)
    ELSE Result([lf EXCEPT !.syllable_buffer = Tail(@)], "none", Head(lf.syllable_buffer))

next_syllable(lf) ==
    IF lf.kind = "dummy" THEN Result(lf, "none", <<>>)
    ELSE IF Len(lf.syllable_buffer) <= 0 THEN Result(lf, "LineTooShort", <<>>)
    ELSE Result([lf EXCEPT !.syllable_buffer = Tail(@)], "none", Head(lf.syllable_buffer))

\* end_line that does not look at the queue
end_line_NoCheck(lf) == Result(lf, "none", <<>>)

end_line(lf) ==
    IF lf.kind = "dummy" THEN Result(lf, "none", <<>>)
    ELSE IF Len(lf.syllable_buffer) > 0 THEN Result(lf, "LineEndedTooEarly", <<>>)
    ELSE Result(lf, "none", <<>>)

end_file(lf) ==
    IF lf.kind = "dummy" THEN Result(lf, "none", <<>>)
    ELSE IF Len(lf.syllable_buffer) > 0 THEN Result(lf, "ExtraSyllables", <<>>)
    ELSE LET r == start_line(lf, TRUE) IN
         IF Len(r.lf.syllable_buffer) > 0 THEN Result(r.lf, "UnusedLyricLines", <<>>)
         ELSE Result(r.lf, "none", <<>>)

\* the lyric source of a run without lyrics being a LyricFile on an empty file
DummyLyricFile_EmptyText ==
    [kind |-> "text", file |-> <<>>, line |-> 0, syllable_buffer |-> <<>>]

\* LyricFile(path) and DummyLyricFile()
LyricFile(lines) == [kind |-> "text", file |-> lines, line |-> 0, syllable_buffer |-> <<>>]
DummyLyricFile == [kind |-> "dummy", file |-> <<>>, line |-> 0, syllable_buffer |-> <<>>]

----------------------------------------------------------------------------
(* The chart: ChartEvent and the regular expressions of convert_chart *)

\* ChartEvent.__init__: self.time = int(time); self.name = name
ChartEvent(time, name) == [time |-> ToInt(time), name |-> name]

\* ChartEvent.get_code: '  {} = E "{}"'.format(self.time, self.name)
get_code(event) ==
    <<" ", " ">> \o FormatInt(event.time) \o <<" ", "=", " ", "E", " ", "\"">>
        \o event.name \o <<"\"">>

\* events_header = re.compile(r"\s*\[Events\]\s*")
events_header ==
    Star("ws") \o Lit(<<"[", "E", "v", "e", "n", "t", "s", "]">>) \o Star("ws")

\* chart naming another section of the file
chart_Song == <<"S", "o", "n", "g">>

\* chart="ExpertKeyboard" ;  lyric_chart_header = re.compile(rf"\s*\[{chart}\]\s*")
chart == <<"E", "x", "p", "e", "r", "t", "K", "e", "y", "b", "o", "a", "r", "d">>
lyric_chart_header == Star("ws") \o Lit(<<"[">> \o chart \o <<"]">>) \o Star("ws")

\* event_line = re.compile(r'\s*(\d+)\s*=\s*E\s*"([^"]*)"\s*')
event_line ==
    Star("ws") \o Plus("d") \o Star("ws") \o Lit(<<"=">>) \o Star("ws") \o Lit(<<"E">>)
        \o Star("ws") \o Lit(<<"\"">>) \o Star("nq") \o Lit(<<"\"">>) \o Star("ws")

\* lyric_note_line = re.compile(r'\s*(\d+)\s*=\s*N\s*([1-3])\s*\d+\s*')
lyric_note_line ==
    Star("ws") \o Plus("d") \o Star("ws") \o Lit(<<"=">>) \o Star("ws") \o Lit(<<"N">>)
        \o Star("ws") \o One("lane") \o Star("ws") \o Plus("d") \o Star("ws")

\* any_note_line = re.compile(r'\s*\d+\s*=\s*(?:[NS]\s*\d+\s*\d+|E\s*[a-zA-Z\d_]+)\s*')
\* as its two alternatives
any_note_line_NS ==
    Star("ws") \o Plus("d") \o Star("ws") \o Lit(<<"=">>) \o Star("ws") \o One("NS")
        \o Star("ws") \o Plus("d") \o Star("ws") \o Plus("d") \o Star("ws")
any_note_line_E ==
    Star("ws") \o Plus("d") \o Star("ws") \o Lit(<<"=">>) \o Star("ws") \o Lit(<<"E">>)
        \o Star("ws") \o Plus("word") \o Star("ws")
any_note_line_fullmatch(line) ==
    FullMatch(any_note_line_NS, line) \/ FullMatch(any_note_line_E, line)

\* the prefix of s before the first occurrence of ch
RECURSIVE Before(_, _)
Before(s, ch) ==
    IF s = <<>> \/ Head(s) = ch THEN <<>> ELSE <<Head(s)>> \o Before(Tail(s), ch)

\* The groups of a line that event_line or lyric_note_line matches:
\* match[1], the digits after the leading whitespace
Group1(line) == TakeWhile(LStrip(line), Digits)
\* event_match[2], the text between the quotes
EventGroup2(line) == Before(After(line, "\""), "\"")
\* note_match[2], the character of [1-3] after "N" and whitespace
NoteGroup2(line) == Head(LStrip(After(line, "N")))

----------------------------------------------------------------------------
(* The texts of the model *)

Text_phrase_start == <<"p", "h", "r", "a", "s", "e", "_", "s", "t", "a", "r", "t">>
Text_phrase_end == <<"p", "h", "r", "a", "s", "e", "_", "e", "n", "d">>
Text_lyric == <<"l", "y", "r", "i", "c", " ">>
Text_events_open == <<"[", "E", "v", "e", "n", "t", "s", "]", "\n", "{", "\n">>
Text_events_close == <<"}", "\n">>

\* Chart lines, as readline() returns them
Line_Events == <<"[", "E", "v", "e", "n", "t", "s", "]", "\n">>
Line_Target == <<"[", "E", "x", "p", "e", "r", "t", "K", "e", "y", "b", "o", "a", "r", "d", "]", "\n">>
Line_Song == <<"[", "S", "o", "n", "g", "]", "\n">>
Line_Open == <<"{", "\n">>
Line_Close == <<"}", "\n">>
EventLine(tick, name) == <<" ", " ">> \o tick \o <<" ", "=", " ", "E", " ", "\"">> \o name \o <<"\"", "\n">>
NoteLine(tick, kind, lane) == <<" ", " ">> \o tick \o <<" ", "=", " ", kind, " ", lane, " ", "0", "\n">>
Line_BareEvent == <<" ", " ", "1", " ", "=", " ", "E", " ", "s", "o", "l", "o", "\n">>

EventLines == {EventLine(<<"2">>, <<"a">>), EventLine(<<"1">>, <<"b">>), EventLine(<<"0", "1">>, <<"a">>)}
LyricNoteLines ==
    {NoteLine(<<"1">>, "N", "1"), NoteLine(<<"2">>, "N", "2"), NoteLine(<<"1">>, "N", "3")}
OtherNoteLines == {NoteLine(<<"1">>, "N", "4"), NoteLine(<<"1">>, "S", "2"), Line_BareEvent}
StructureLines == {Line_Events, Line_Target, Line_Song, Line_Open, Line_Close}
ChartLines == StructureLines \cup EventLines \cup LyricNoteLines \cup OtherNoteLines
\* the lines among them that the charts of the model hold outside their parsed sections
CopiedLines == {Line_Song, Line_Target, Line_Close}

\* Lyric files, as the sequences of their lines
LyricLine_a == <<"a", "\n">>
LyricLine_b == <<"b", "\n">>
LyricLine_a_b == <<"a", "-", "b", "\n">>
LyricLine_empty == <<"\n">>
LyricLine_spaces == <<" ">>
LyricLine_hello == <<"h", "e", "l", "-", "l", "o", " ", "w", "o", "r", "l", "d", "\n">>
LyricTexts ==
    {<<LyricLine_a>>, <<LyricLine_a, LyricLine_b>>, <<LyricLine_a, LyricLine_spaces>>}

----------------------------------------------------------------------------
(* convert_chart *)

\* How many lines of the set ls the chart has delivered
Count(ls) == Cardinality({i \in DOMAIN file_in : file_in[i] \in ls})

\* What file_in.readline() may return next: the end of the file, or one more
\* line when the last line ended with a newline and the bounds allow it
NextLines ==
    IF chart_text.given
    THEN {IF Len(file_in) < Len(chart_text.lines)
          THEN chart_text.lines[Len(file_in) + 1] ELSE <<>>}
    ELSE
    {<<>>} \cup
    IF /\ Len(file_in) < MaxLines
       /\ (file_in = <<>> \/ file_in[Len(file_in)][Len(file_in[Len(file_in)])] = "\n")
    THEN (StructureLines \cup LyricNoteLines)
             \cup (IF Count(EventLines) < MaxEventLines THEN EventLines ELSE {})
             \cup (IF Count(OtherNoteLines) < MaxOtherNotes THEN OtherNoteLines ELSE {})
    ELSE {}

\* How many lines the run has copied so far: each ended with a newline
Copied == Cardinality({i \in DOMAIN file_out : file_out[i] = "\n"})
              + Cardinality({i \in DOMAIN diff_text : diff_text[i] = "\n"})

\* The lines a copying loop may read next: the end of the file, the header it
\* looks for, or one more line to copy when the bounds allow it
CopyLines(header) ==
    LET more == Copied < MaxCopied
    IN  {l \in NextLines : \/ l = <<>>
                            \/ chart_text.given
                            \/ (more /\ l \in CopiedLines)
                            \/ FullMatch(header, l)}

\* file_in.readline() returning line
Read(line) ==
    /\ ~eof_in
    /\ line \in NextLines
    /\ file_in' = IF line = <<>> THEN file_in ELSE Append(file_in, line)
    /\ eof_in' = (line = <<>>)
    /\ UNCHANGED chart_text

\* Raise that records the exception and lets the loop go on
Raise_Continue(e) == err' = e /\ UNCHANGED pc

\* raise Exception(...)
Raise(e) == pc' = "error" /\ err' = e

\* Write that writes the line twice
Write_Twice(out, line) == out \o line \o line

\* Write that writes nothing
Write_Nothing(out, line) == out

\* file_out.write(line)
Write(out, line) == out \o line

\* AppendDiff with the line put before the stored text
AppendDiff_Before(diff, line) == line \o diff

\* diff_text += line
AppendDiff(diff, line) == diff \o line

\* global_events.append(event)
AppendEvent(events, event) == Append(events, event)

\* InsertByTime with the event put before the events of its tick: not stable
RECURSIVE InsertByTime_BeforeEqual(_, _)
InsertByTime_BeforeEqual(sorted, event) ==
    IF sorted = <<>> THEN <<event>>
    ELSE IF Head(sorted).time < event.time
         THEN <<Head(sorted)>> \o InsertByTime_BeforeEqual(Tail(sorted), event)
         ELSE <<event>> \o sorted

\* sorted(global_events, key=attrgetter("time")): a stable sort, here by
\* inserting each event after the events that are not later than it
RECURSIVE InsertByTime(_, _)
InsertByTime(sorted, event) ==
    IF sorted = <<>> THEN <<event>>
    ELSE IF Head(sorted).time <= event.time
         THEN <<Head(sorted)>> \o InsertByTime(Tail(sorted), event)
         ELSE <<event>> \o sorted

\* SortByTime that leaves the events in buffer order
SortByTime_Unsorted(events) == events

RECURSIVE SortByTime(_)
SortByTime(events) ==
    IF events = <<>> THEN <<>>
    ELSE InsertByTime(SortByTime(SubSeq(events, 1, Len(events) - 1)), events[Len(events)])

\* for event in global_events: file_out.write(event.get_code() + "\n")
EventCodes(events) == Flatten([i \in 1..Len(events) |-> get_code(events[i]) \o <<"\n">>])

\* WriteEvents with the stored text written before the Events section
WriteEvents_DiffFirst(out, events, diff) ==
    out \o diff \o Text_events_open \o EventCodes(events) \o Text_events_close

\* the writes that end convert_chart: the Events section, then the stored text
WriteEvents(out, events, diff) ==
    Write(Write(Write(Write(out, Text_events_open), EventCodes(events)), Text_events_close), diff)

\* EventType with the texts of lanes 1 and 3 exchanged
EventType_Exchanged(lane, syllable) ==
    CASE lane = "1" -> Text_phrase_end
      [] lane = "2" -> Text_lyric \o syllable
      [] lane = "3" -> Text_phrase_start

\* the event_type of a note of lane 1, 2 or 3, given what the lyric source returned
EventType(lane, syllable) ==
    CASE lane = "1" -> Text_phrase_start
      [] lane = "2" -> Text_lyric \o syllable
      [] lane = "3" -> Text_phrase_end

\* the call a note of lane 1, 2 or 3 makes on the lyric source
LyricCall(lane, lf) ==
    CASE lane = "1" -> start_line(lf, FALSE)
      [] lane = "2" -> next_syllable(lf)
      [] lane = "3" -> end_line(lf)

LyricOp(lane) ==
    CASE lane = "1" -> "start_line" [] lane = "2" -> "next_syllable" [] lane = "3" -> "end_line"

\* the record of a call in calls: what was called, what it raised and returned,
\* and the length of the syllable queue after it
Call(op, r) == [op |-> op, err |-> r.err, ret |-> r.ret, q |-> Len(r.lf.syllable_buffer)]

Init ==
    /\ pc = "Preamble"
    /\ chart_text = [given |-> FALSE, lines |-> <<>>]
    /\ file_in = <<>>
    /\ eof_in = FALSE
    /\ file_out = <<>>
    /\ global_events = <<>>
    /\ diff_text = <<>>
    /\ lyric_text \in {<<>>} \cup LyricTexts
    /\ lyric_file \in IF lyric_text = <<>> THEN {DummyLyricFile} ELSE {LyricFile(lyric_text)}
    /\ calls = <<>>
    /\ err = "none"

\* Echo stuff before events
Preamble ==
    /\ pc = "Preamble"
    /\ \E line \in CopyLines(events_header) :
         /\ Read(line)
         /\ IF line = <<>>
            THEN Raise("MissingEventsSection") /\ UNCHANGED file_out
            ELSE IF FullMatch(events_header, line)
            THEN pc' = "EventsOpen" /\ UNCHANGED <<file_out, err>>
            ELSE file_out' = Write(file_out, line) /\ UNCHANGED <<pc, err>>
    /\ UNCHANGED <<global_events, diff_text, lyric_text, lyric_file, calls>>

\* the line after "[Events]"
EventsOpen ==
    /\ pc = "EventsOpen"
    /\ \E open_brace_line \in NextLines :
         /\ Read(open_brace_line)
         /\ IF Strip(open_brace_line) # <<"{">>
            THEN Raise("MalformedSectionOpen")
            ELSE pc' = "EventsBody" /\ UNCHANGED err
    /\ UNCHANGED <<file_out, global_events, diff_text, lyric_text, lyric_file, calls>>

\* Read in current events
EventsBody ==
    /\ pc = "EventsBody"
    /\ \E line \in NextLines :
         /\ Read(line)
         /\ IF line = <<>>
            THEN Raise("UnexpectedEOF") /\ UNCHANGED global_events
            ELSE IF FullMatch(event_line, line)
            THEN /\ global_events' =
                        AppendEvent(global_events, ChartEvent(Group1(line), EventGroup2(line)))
                 /\ UNCHANGED <<pc, err>>
            ELSE IF Strip(line) = <<"}">>
            THEN pc' = "SeekTarget" /\ UNCHANGED <<global_events, err>>
            ELSE Raise("MalformedEventLine") /\ UNCHANGED global_events
    /\ UNCHANGED <<file_out, diff_text, lyric_text, lyric_file, calls>>

\* Read and store diffs before ExpertKeyboard
SeekTarget ==
    /\ pc = "SeekTarget"
    /\ \E line \in CopyLines(lyric_chart_header) :
         /\ Read(line)
         /\ IF line = <<>>
            THEN Raise("MissingTargetSection") /\ UNCHANGED diff_text
            ELSE IF FullMatch(lyric_chart_header, line)
            THEN pc' = "TargetOpen" /\ UNCHANGED <<diff_text, err>>
            ELSE diff_text' = AppendDiff(diff_text, line) /\ UNCHANGED <<pc, err>>
    /\ UNCHANGED <<file_out, global_events, lyric_text, lyric_file, calls>>

\* the line after "[ExpertKeyboard]"
TargetOpen ==
    /\ pc = "TargetOpen"
    /\ \E open_brace_line \in NextLines :
         /\ Read(open_brace_line)
         /\ IF Strip(open_brace_line) # <<"{">>
            THEN Raise("MalformedSectionOpen")
            ELSE pc' = "TargetBody" /\ UNCHANGED err
    /\ UNCHANGED <<file_out, global_events, diff_text, lyric_text, lyric_file, calls>>

\* read in the notes, converting them to lyric events; at the closing brace,
\* lyric_file.end_file()
TargetBody ==
    /\ pc = "TargetBody"
    /\ \E line \in NextLines :
         /\ Read(line)
         /\ IF line = <<>>
            THEN Raise("UnexpectedEOF") /\ UNCHANGED <<global_events, lyric_file, calls>>
            ELSE IF FullMatch(lyric_note_line, line)
            THEN LET lane == NoteGroup2(line)
                     r == LyricCall(lane, lyric_file)
                 IN  /\ lyric_file' = r.lf
                     /\ calls' = Append(calls, Call(LyricOp(lane), r))
                     /\ IF r.err # "none"
                        THEN Raise(r.err) /\ UNCHANGED global_events
                        ELSE /\ global_events' =
                                    AppendEvent(global_events,
                                                ChartEvent(Group1(line), EventType(lane, r.ret)))
                             /\ UNCHANGED <<pc, err>>
            ELSE IF any_note_line_fullmatch(line)
            THEN UNCHANGED <<pc, err, global_events, lyric_file, calls>>
            ELSE IF Strip(line) = <<"}">>
            THEN LET r == end_file(lyric_file) IN
                 /\ lyric_file' = r.lf
                 /\ calls' = Append(calls, Call("end_file", r))
                 /\ IF r.err # "none" THEN Raise(r.err) ELSE pc' = "Trailer" /\ UNCHANGED err
                 /\ UNCHANGED global_events
            ELSE Raise("UnexpectedLine") /\ UNCHANGED <<global_events, lyric_file, calls>>
    /\ UNCHANGED <<file_out, diff_text, lyric_text>>

\* Read and store any diffs after ExpertKeyboard; at the end of the file, sort
\* the events and write the Events section and the stored diffs
Trailer ==
    /\ pc = "Trailer"
    /\ \E line \in CopyLines(<<>>) :
         /\ Read(line)
         /\ IF line = <<>>
            THEN /\ global_events' = SortByTime(global_events)
                 /\ file_out' = WriteEvents(file_out, global_events', diff_text)
                 /\ pc' = "done"
                 /\ UNCHANGED diff_text
            ELSE /\ diff_text' = AppendDiff(diff_text, line)
                 /\ UNCHANGED <<pc, global_events, file_out>>
    /\ UNCHANGED <<lyric_text, lyric_file, calls, err>>

Next ==
    \/ Preamble
    \/ EventsOpen
    \/ EventsBody
    \/ SeekTarget
    \/ TargetOpen
    \/ TargetBody
    \/ Trailer

Spec == Init /\ [][Next]_vars

----------------------------------------------------------------------------
(* A LyricFile driven directly, one call at a time, until a call raises *)

\* the lyric files of these runs
DirectLyricTexts ==
    {<<LyricLine_hello>>, <<LyricLine_empty, LyricLine_hello, LyricLine_a>>,
     <<LyricLine_a_b, LyricLine_empty, LyricLine_b>>, <<LyricLine_a, LyricLine_spaces>>,
     <<LyricLine_empty>>}

InitLyric ==
    /\ pc = "lyric"
    /\ chart_text = [given |-> FALSE, lines |-> <<>>]
    /\ file_in = <<>>
    /\ eof_in = FALSE
    /\ file_out = <<>>
    /\ global_events = <<>>
    /\ diff_text = <<>>
    /\ lyric_text \in DirectLyricTexts
    /\ lyric_file = LyricFile(lyric_text)
    /\ calls = <<>>
    /\ err = "none"

\* one call on the lyric source: its state after the call, the record of the
\* call, and the exception if it raised
DirectCall(op, r) ==
    /\ pc = "lyric"
    /\ Len(calls) < MaxCalls
    /\ lyric_file' = r.lf
    /\ calls' = Append(calls, Call(op, r))
    /\ IF r.err # "none" THEN Raise(r.err) ELSE UNCHANGED <<pc, err>>
    /\ UNCHANGED <<chart_text, file_in, eof_in, file_out, global_events, diff_text, lyric_text>>

CallStartLine == DirectCall("start_line", start_line(lyric_file, FALSE))
CallNextSyllable == DirectCall("next_syllable", next_syllable(lyric_file))
CallEndLine == DirectCall("end_line", end_line(lyric_file))
CallEndFile == DirectCall("end_file", end_file(lyric_file))

NextLyric ==
    \/ CallStartLine
    \/ CallNextSyllable
    \/ CallEndLine
    \/ CallEndFile

SpecLyric == InitLyric /\ [][NextLyric]_vars

----------------------------------------------------------------------------
(* start_line on a LyricFile whose file holds one non-blank line over the     *)
(* alphabet of letters, spaces and hyphens                                    *)

Alphabet == {"a", "b", " ", "-"}

\* the texts of 1..n characters of the alphabet
RECURSIVE TextsUpTo(_)
TextsUpTo(n) ==
    IF n = 0 THEN {}
    ELSE LET shorter == TextsUpTo(n - 1)
         IN  {<<ch>> : ch \in Alphabet} \cup shorter
                 \cup {Append(t, ch) : t \in shorter, ch \in Alphabet}

\* the lines readline() returns for them: those that are not blank, each ended
\* by its newline
TokenLines ==
    {Append(t, "\n") : t \in {u \in TextsUpTo(MaxLen) : \E i \in DOMAIN u : u[i] \notin WS}}

InitTokens ==
    /\ pc = "lyric"
    /\ chart_text = [given |-> FALSE, lines |-> <<>>]
    /\ file_in = <<>>
    /\ eof_in = FALSE
    /\ file_out = <<>>
    /\ global_events = <<>>
    /\ diff_text = <<>>
    /\ lyric_text \in {<<line>> : line \in TokenLines}
    /\ lyric_file = LyricFile(lyric_text)
    /\ calls = <<>>
    /\ err = "none"

\* the first call on the source: start_line
FirstStartLine == calls = <<>> /\ CallStartLine

SpecTokens == InitTokens /\ [][FirstStartLine]_vars

----------------------------------------------------------------------------
(* convert_chart without lyrics (DummyLyricFile), on charts given whole: an   *)
(* Events section with or without one event, and a target section holding any *)
(* sequence of up to MaxNotes notes of lanes 1, 2 and 3                       *)

Line_Event100 == EventLine(<<"1", "0", "0">>, <<"t", "e", "s", "t">>)
Note_200_1 == NoteLine(<<"2", "0", "0">>, "N", "1")
Note_250_2 == NoteLine(<<"2", "5", "0">>, "N", "2")
Note_300_3 == NoteLine(<<"3", "0", "0">>, "N", "3")

\* the sequences of at most n notes
RECURSIVE NoteSeqs(_)
NoteSeqs(n) ==
    IF n = 0 THEN {<<>>}
    ELSE LET shorter == NoteSeqs(n - 1)
         IN  shorter \cup {Append(ns, l) : ns \in shorter, l \in {Note_200_1, Note_250_2, Note_300_3}}

\* a chart with these event lines and these lines in its target section
ChartOf(events, notes) ==
    <<Line_Events, Line_Open>> \o events \o <<Line_Close, Line_Target, Line_Open>>
        \o notes \o <<Line_Close>>

SilentCharts ==
    {ChartOf(events, notes) : events \in {<<>>, <<Line_Event100>>}, notes \in NoteSeqs(MaxNotes)}

InitSilent ==
    /\ pc = "Preamble"
    /\ chart_text \in [given : {TRUE}, lines : SilentCharts]
    /\ file_in = <<>>
    /\ eof_in = FALSE
    /\ file_out = <<>>
    /\ global_events = <<>>
    /\ diff_text = <<>>
    /\ lyric_text = <<>>
    /\ lyric_file = DummyLyricFile
    /\ calls = <<>>
    /\ err = "none"

SpecSilent == InitSilent /\ [][Next]_vars

----------------------------------------------------------------------------
(* convert_chart running to its end: the interpreter takes the next step of   *)
(* the function as long as there is one.  The charts are those chosen line by *)
(* line and those given whole.                                                *)

FairSpec == (Init \/ InitSilent) /\ [][Next]_vars /\ WF_vars(Next)

----------------------------------------------------------------------------
(* The input and the output as texts, for the properties below *)

\* the least element of a set of positions, 0 when there is none
FirstOf(S) == IF S = {} THEN 0 ELSE CHOOSE i \in S : \A j \in S : i <= j

\* the elements of a set of positions, in ascending order
RECURSIVE Ascending(_)
Ascending(S) ==
    IF S = {} THEN <<>> ELSE LET m == FirstOf(S) IN <<m>> \o Ascending(S \ {m})

\* the first position from i on where the input holds a line that is text
\* after trimming, 0 when there is none
RECURSIVE Find(_, _)
Find(text, i) ==
    IF i > Len(file_in) THEN 0
    ELSE IF Strip(file_in[i]) = text THEN i ELSE Find(text, i + 1)

\* Where the sections of the input are: the positions of the [Events] header
\* (e), of the closing brace of its block (c), of the target section's header
\* (t) and of the closing brace of its block (tc); 0 for what is not there
EventsHeaderAt == Find(<<"[", "E", "v", "e", "n", "t", "s", "]">>, 1)
Layout ==
    LET e == EventsHeaderAt
        c == IF e = 0 THEN 0 ELSE Find(<<"}">>, e + 2)
        t == IF c = 0 THEN 0 ELSE Find(<<"[", "E", "x", "p", "e", "r", "t", "K", "e", "y", "b", "o", "a", "r", "d", "]">>, c + 1)
        tc == IF t = 0 THEN 0 ELSE Find(<<"}">>, t + 2)
    IN  [e |-> e, c |-> c, t |-> t, tc |-> tc]

\* the text of the input lines from..to
InputLines(from, to) == Flatten(SubSeq(file_in, from, to))

\* the input lines at the positions of the set keep, in order
KeptLines(keep) ==
    LET at == Ascending(keep) IN Flatten([k \in 1..Len(at) |-> file_in[at[k]]])

\* the Events block convert_chart writes for a list of events
EventsBlock(events) ==
    Line_Events \o Line_Open
        \o Flatten([i \in 1..Len(events) |-> get_code(events[i]) \o <<"\n">>]) \o Line_Close

\* the events of the output's [Events] block, read back from the output's lines
OutputEvents ==
    LET nl == Ascending({i \in DOMAIN file_out : file_out[i] = "\n"})
        lines == [k \in 1..Len(nl) |->
                     SubSeq(file_out, (IF k = 1 THEN 0 ELSE nl[k - 1]) + 1, nl[k] - 1)]
        h == FirstOf({i \in DOMAIN lines : lines[i] = <<"[", "E", "v", "e", "n", "t", "s", "]">>})
        c == FirstOf({i \in DOMAIN lines : i > h + 1 /\ lines[i] = <<"}">>})
    IN  [k \in 1..(c - h - 2) |->
            LET l == lines[h + 1 + k]
            IN  [time |-> ToInt(TakeWhile(LStrip(l), Digits)),
                 name |-> Before(After(l, "\""), "\"")]]

\* the fields of a chart line: its pieces between runs of whitespace
Fields(line) == SplitAcc(Strip(line), WS, TRUE, <<>>)

\* a note line "<tick> = N <lane> <duration>" of one of the given lanes
IsNoteOfLanes(line, lanes) ==
    LET f == Fields(line) IN
    /\ Len(f) = 5
    /\ f[2] = <<"=">> /\ f[3] = <<"N">>
    /\ \A k \in {1, 4, 5} : f[k] # <<>> /\ \A i \in DOMAIN f[k] : f[k][i] \in Digits
    /\ ToInt(f[4]) \in lanes
NoteTick(line) == ToInt(Fields(line)[1])
NoteLane(line) == ToInt(Fields(line)[4])

\* the pre-existing events: the event lines of the input's [Events] block, in order
PreExisting(L) ==
    LET last == IF L.c = 0 THEN Len(file_in) ELSE L.c - 1
    IN  IF L.e = 0 THEN <<>>
        ELSE [k \in 1..(last - L.e - 1) |->
                 LET l == file_in[L.e + 1 + k]
                 IN  [time |-> ToInt(Fields(l)[1]), name |-> Before(After(l, "\""), "\"")]]

\* the positions of the notes of lanes 1..3 read in the target section, in order
LyricNotesAt(L) ==
    IF L.t = 0 THEN <<>>
    ELSE Ascending({i \in DOMAIN file_in :
                       /\ i > L.t + 1
                       /\ (L.tc = 0 \/ i < L.tc)
                       /\ IsNoteOfLanes(file_in[i], {1, 2, 3})})

\* the event a note of lane 1, 2 or 3 stands for, given the syllable for lane 2
DerivedEvent(line, syllable) ==
    LET lane == NoteLane(line) IN
    [time |-> NoteTick(line),
     name |-> CASE lane = 1 -> Text_phrase_start
                [] lane = 2 -> Text_lyric \o syllable
                [] lane = 3 -> Text_phrase_end]

\* the derived events in note-line order; the k-th note made the k-th call
Derived(L) ==
    LET at == LyricNotesAt(L)
    IN  [k \in 1..Len(at) |-> DerivedEvent(file_in[at[k]], calls[k].ret)]

\* the stable sort by tick, tick by tick
AtTick(events, t) == SelectSeq(events, LAMBDA e : e.time = t)
RECURSIVE TickByTick(_, _)
TickByTick(events, ticks) ==
    IF ticks = {} THEN <<>>
    ELSE LET t == CHOOSE x \in ticks : \A y \in ticks : x <= y
         IN  AtTick(events, t) \o TickByTick(events, ticks \ {t})
StableSorted(events) == TickByTick(events, {events[i].time : i \in DOMAIN events})

----------------------------------------------------------------------------
(* C1: when convert_chart succeeds, the output is the input lines before the *)
(* [Events] header, then the new Events block, then the input lines between  *)
(* the Events block's closing brace and the target section's header, then    *)
(* the input lines after the target section's closing brace, each group      *)
(* unchanged and in the input's order.                                       *)
C1_OutputIsThreeGroupsAroundNewEvents ==
    pc = "done" =>
        LET L == Layout IN
        file_out = InputLines(1, L.e - 1)
                       \o EventsBlock(global_events)
                       \o InputLines(L.c + 1, L.t - 1)
                       \o InputLines(L.tc + 1, Len(file_in))

\* a successful run whose input has lines before [Events] and after the
\* target section, and events
C1_Witness ==
    /\ pc = "done"
    /\ EventsHeaderAt > 1
    /\ Layout.tc < Len(file_in)
    /\ global_events # <<>>

(* C2 as stated: when convert_chart succeeds, the output is the input with    *)
(* only the [Events] block replaced, every line outside that block (the       *)
(* target section's header, braces and notes included) kept in order.         *)
C2_OnlyEventsBlockReplaced ==
    pc = "done" =>
        LET L == Layout IN
        file_out = InputLines(1, L.e - 1)
                       \o EventsBlock(global_events)
                       \o InputLines(L.c + 1, Len(file_in))

(* C2 amended: when convert_chart succeeds, the output is the input with the  *)
(* [Events] block replaced and the target section (its header, braces and     *)
(* note lines) removed: every input line outside these two blocks appears     *)
(* unchanged and in order, and no line of the target section is written.      *)
C2_EventsReplacedTargetRemoved ==
    pc = "done" =>
        LET L == Layout
            before == KeptLines({i \in DOMAIN file_in : i < L.e})
            after == KeptLines({i \in DOMAIN file_in : i > L.c /\ ~(i >= L.t /\ i <= L.tc)})
            block == EventsBlock(global_events)
        IN  /\ Len(file_out) = Len(before) + Len(block) + Len(after)
            /\ SubSeq(file_out, 1, Len(before)) = before
            /\ SubSeq(file_out, Len(before) + 1, Len(before) + Len(block)) = block
            /\ SubSeq(file_out, Len(before) + Len(block) + 1, Len(file_out)) = after

\* a successful run whose target section holds notes, with lines between the
\* two blocks and after the target section
C2_Witness ==
    /\ pc = "done"
    /\ Layout.tc > Layout.t + 2
    /\ Layout.tc < Len(file_in)
    /\ Layout.t > Layout.c + 1

(* C3: when convert_chart succeeds, the event lines of the output's [Events]  *)
(* block have non-decreasing ticks from first to last, whatever the order of  *)
(* the event lines and note lines in the input.                               *)
C3_OutputEventsNonDecreasing ==
    pc = "done" =>
        LET out == OutputEvents IN
        \A i \in 1..(Len(out) - 1) : out[i].time <= out[i + 1].time

\* a successful run whose input had a later tick before an earlier one, among
\* the events and among the notes
C3_Witness ==
    /\ pc = "done"
    /\ LET L == Layout
           pre == PreExisting(L)
           at == LyricNotesAt(L)
       IN  /\ Len(pre) = 2 /\ pre[1].time > pre[2].time
           /\ Len(OutputEvents) = Len(pre) + Len(at)
           /\ \E i, j \in DOMAIN at :
                  i < j /\ NoteTick(file_in[at[i]]) > NoteTick(file_in[at[j]])

(* C4: the output's [Events] list is the stable sort by tick of the buffer,   *)
(* the pre-existing events in input order followed by the derived events in   *)
(* note-line order: nothing lost or duplicated, equal ticks keep their buffer *)
(* order, so a derived event comes after the pre-existing events of its tick. *)
C4_OutputIsStableSortOfBuffer ==
    pc = "done" =>
        LET L == Layout IN OutputEvents = StableSorted(PreExisting(L) \o Derived(L))

\* a successful run with two pre-existing events at one tick, a derived event
\* at that tick too, and a buffer that was not in order
C4_Witness ==
    /\ pc = "done"
    /\ LET L == Layout
           pre == PreExisting(L)
           der == Derived(L)
       IN  /\ Len(pre) = 2
           /\ pre[1].time = pre[2].time /\ pre[1].name # pre[2].name
           /\ \E k \in DOMAIN der : der[k].time = pre[1].time
           /\ pre \o der # StableSorted(pre \o der)

\* the line a step has read, <<>> when it read none
LineRead == IF Len(file_in') = Len(file_in) + 1 THEN file_in'[Len(file_in')] ELSE <<>>

\* an S line "<tick> = S <lane> <duration>" or a bare E line "<tick> = E <name>"
IsSpecialLine(line) ==
    LET f == Fields(line) IN
    /\ Len(f) = 5 /\ f[2] = <<"=">> /\ f[3] = <<"S">>
    /\ \A k \in {1, 4, 5} : f[k] # <<>> /\ \A i \in DOMAIN f[k] : f[k][i] \in Digits
IsBareEventLine(line) ==
    LET f == Fields(line) IN
    /\ Len(f) = 4 /\ f[2] = <<"=">> /\ f[3] = <<"E">>
    /\ f[1] # <<>> /\ \A i \in DOMAIN f[1] : f[1][i] \in Digits
    /\ f[4] # <<>> /\ \A i \in DOMAIN f[4] : f[4][i] \in Letters \cup Digits \cup {"_"}

\* the lanes of the chart format other than 1, 2 and 3
OtherLanes == (0..9) \ {1, 2, 3}

(* C5: in the target section a note of lane 1 adds exactly one event          *)
(* phrase_start, of lane 2 one event "lyric " + the syllable next_syllable    *)
(* returns (the head of the queue, or the empty text of the silent source),   *)
(* of lane 3 one event phrase_end, each at the note's tick and after one call *)
(* on the lyric source (when that call does not raise); a note of another     *)
(* lane, an S line or a bare E line adds no event and makes no call.          *)
C5_LaneMapping ==
    [][pc = "TargetBody" /\ LineRead # <<>> =>
          LET line == LineRead
              syllable == IF lyric_file.syllable_buffer = <<>> THEN <<>>
                          ELSE Head(lyric_file.syllable_buffer)
          IN  /\ IsNoteOfLanes(line, {1, 2, 3}) /\ err' = "none" =>
                     /\ global_events' = Append(global_events, DerivedEvent(line, syllable))
                     /\ Len(calls') = Len(calls) + 1
                     /\ calls'[Len(calls')].op =
                            CASE NoteLane(line) = 1 -> "start_line"
                              [] NoteLane(line) = 2 -> "next_syllable"
                              [] NoteLane(line) = 3 -> "end_line"
              /\ IsNoteOfLanes(line, {1, 2, 3}) /\ err' # "none" =>
                     global_events' = global_events
              /\ (IsNoteOfLanes(line, OtherLanes) \/ IsSpecialLine(line) \/ IsBareEventLine(line)) =>
                     /\ global_events' = global_events
                     /\ calls' = calls
                     /\ lyric_file' = lyric_file
                     /\ pc' = pc /\ err' = "none"]_vars

\* the target section has given a phrase_start, a lyric and a phrase_end, and
\* held a line that is ignored
C5_Witness ==
    /\ pc = "TargetBody"
    /\ Len(calls) = 3
    /\ calls[1].op = "start_line" /\ calls[2].op = "next_syllable" /\ calls[3].op = "end_line"
    /\ Len(global_events) >= 3
    /\ \E i \in DOMAIN file_in : i > Layout.t + 1 /\ file_in[i] \in OtherNoteLines

\* how many syllables the i-th call, a start_line, loaded
Loaded(i) == calls[i].q - (IF i = 1 THEN 0 ELSE calls[i - 1].q)

\* every phrase the notes closed had as many lane-2 notes between its lane-1
\* note and the next lane-3 note as its lane-1 note loaded syllables
PhrasesMatch ==
    \A i \in DOMAIN calls :
        calls[i].op = "start_line" =>
            LET j == FirstOf({k \in DOMAIN calls : k > i /\ calls[k].op = "end_line"})
            IN  j # 0 =>
                    Cardinality({k \in (i + 1)..(j - 1) : calls[k].op = "next_syllable"})
                        = Loaded(i)

(* C6: with a text-backed lyric source, when the number of lane-2 notes       *)
(* between a lane-1 note and the next lane-3 note differs from the number of  *)
(* syllables the lane-1 note loaded, the transform fails: it never succeeds   *)
(* with a mismatched phrase.  Stated for the lyric files whose lines all end  *)
(* with a newline.                                                            *)
C6_NoSuccessWithMismatchedPhrase ==
    (/\ pc = "done"
     /\ lyric_file.kind = "text"
     /\ \A i \in DOMAIN lyric_text : lyric_text[i][Len(lyric_text[i])] = "\n") => PhrasesMatch

\* the first line of a lyric file that is not blank, <<>> when there is none
FirstNonBlank(lines) ==
    LET at == FirstOf({i \in DOMAIN lines : Strip(lines[i]) # <<>>})
    IN  IF at = 0 THEN <<>> ELSE lines[at]

\* the next non-blank line was "hel-lo world", and the calls so far are
\* start_line followed by next_syllable calls only
HelloCalls ==
    /\ FirstNonBlank(lyric_text) = LyricLine_hello
    /\ calls # <<>>
    /\ calls[1].op = "start_line"
    /\ \A i \in 2..Len(calls) : calls[i].op = "next_syllable"

(* C7 as stated: with "hel-lo world" as the next non-blank line, start_line   *)
(* and two next_syllable calls return "hel-" then "lo", and a third           *)
(* next_syllable call fails with LineTooShort.                                *)
C7_ThirdCallFails ==
    HelloCalls =>
        /\ Len(calls) >= 2 => calls[2].ret = <<"h", "e", "l", "-">>
        /\ Len(calls) >= 3 => calls[3].ret = <<"l", "o">>
        /\ Len(calls) >= 4 => calls[4].err = "LineTooShort"

(* C7 amended: with "hel-lo world" as the next non-blank line, start_line and *)
(* three next_syllable calls return "hel-", "lo" and then "world", and a      *)
(* fourth next_syllable call fails with LineTooShort.                         *)
C7_FourthCallFails ==
    HelloCalls =>
        /\ calls[1].err = "none"
        /\ Len(calls) >= 2 => calls[2].err = "none" /\ calls[2].ret = <<"h", "e", "l", "-">>
        /\ Len(calls) >= 3 => calls[3].err = "none" /\ calls[3].ret = <<"l", "o">>
        /\ Len(calls) >= 4 => calls[4].err = "none" /\ calls[4].ret = <<"w", "o", "r", "l", "d">>
        /\ Len(calls) >= 5 => calls[5].err = "LineTooShort"

\* start_line and four next_syllable calls were made on "hel-lo world"
C7_Witness == HelloCalls /\ Len(calls) = 5 /\ pc = "error"

\* convert_chart has read what follows the [Events] header, and it is not an
\* opening brace after trimming (the end of the file included)
EventsOpenIsBad ==
    LET e == EventsHeaderAt IN
    /\ e > 0
    /\ \/ Len(file_in) = e /\ eof_in
       \/ Len(file_in) > e /\ Strip(file_in[e + 1]) # <<"{">>

(* C8 as stated: when the line after the [Events] header is not an opening    *)
(* brace, convert_chart fails with MalformedSectionOpen and nothing has been  *)
(* written to the output, whatever lines precede the header.                  *)
C8_NothingWritten ==
    EventsOpenIsBad => pc = "error" /\ err = "MalformedSectionOpen" /\ file_out = <<>>

(* C8 amended: when the line after the [Events] header is not an opening      *)
(* brace, convert_chart fails with MalformedSectionOpen and the output holds  *)
(* exactly the lines that precede the [Events] header (nothing when the       *)
(* header is the first line).                                                 *)
C8_OnlyPreambleWritten ==
    EventsOpenIsBad =>
        /\ pc = "error" /\ err = "MalformedSectionOpen"
        /\ file_out = InputLines(1, EventsHeaderAt - 1)

\* the failure after a preamble of two lines
C8_Witness == EventsOpenIsBad /\ EventsHeaderAt = 3 /\ Len(file_in) = 4

(* C9: with a text-backed lyric source, a lane-2 note read when the syllable  *)
(* queue is empty aborts the transform with LineTooShort at that note: no     *)
(* event is added for it, and no step is taken after the abort.               *)
C9_LineTooShortAborts ==
    [][/\ pc # "error"
       /\ (/\ pc = "TargetBody"
           /\ lyric_file.kind = "text"
           /\ lyric_file.syllable_buffer = <<>>
           /\ IsNoteOfLanes(LineRead, {2}))
              => /\ pc' = "error" /\ err' = "LineTooShort"
                 /\ global_events' = global_events
                 /\ file_out' = file_out /\ diff_text' = diff_text]_vars

\* a phrase with more lane-2 notes than the syllables loaded has aborted
C9_Witness ==
    /\ pc = "error" /\ err = "LineTooShort"
    /\ Len(calls) >= 3
    /\ calls[1].op = "start_line"
    /\ \A i \in 2..Len(calls) : calls[i].op = "next_syllable"
    /\ IsNoteOfLanes(file_in[Len(file_in)], {2})

\* how many end_file calls a list of calls holds
EndFileCalls(cs) == Cardinality({i \in DOMAIN cs : cs[i].op = "end_file"})

(* C10: end_file on the text-backed source succeeds exactly when the syllable *)
(* queue is empty and the rest of the lyric file holds only blank lines       *)
(* (empty or whitespace only) or nothing; it fails with ExtraSyllables when   *)
(* the queue is not empty, and with UnusedLyricLines when the queue is empty  *)
(* and a further non-blank line exists.  convert_chart calls it once, when it *)
(* reads the closing brace of the target section.                             *)
C10_EndFileExactly ==
    [][IF pc = "TargetBody" /\ LineRead # <<>> /\ Strip(LineRead) = <<"}">>
       THEN /\ Len(calls') = Len(calls) + 1
            /\ calls'[Len(calls')].op = "end_file"
            /\ EndFileCalls(calls) = 0
            /\ lyric_file.kind = "text" =>
                   LET queueEmpty == lyric_file.syllable_buffer = <<>>
                       restBlank == \A i \in DOMAIN lyric_file.file :
                                        Strip(lyric_file.file[i]) = <<>>
                   IN  /\ err' = "none" <=> (queueEmpty /\ restBlank)
                       /\ ~queueEmpty => err' = "ExtraSyllables"
                       /\ queueEmpty /\ ~restBlank => err' = "UnusedLyricLines"
       ELSE EndFileCalls(calls') = EndFileCalls(calls)]_vars

\* the input holds a whole [Events] block: the header, an opening brace, event
\* lines only, and the closing brace
EventsBlockRead(L) ==
    /\ L.e > 0 /\ L.c > L.e + 1
    /\ Strip(file_in[L.e + 1]) = <<"{">>
    /\ \A i \in (L.e + 2)..(L.c - 1) : FullMatch(event_line, file_in[i])

(* C11: when the input has ended and no line after the closing brace of the   *)
(* Events block matches the target section's header, convert_chart has failed *)
(* with MissingTargetSection, also when the header occurs before [Events].    *)
C11_MissingTargetSection ==
    LET L == Layout IN
    (eof_in /\ EventsBlockRead(L) /\ L.t = 0) =>
        pc = "error" /\ err = "MissingTargetSection"

\* the failure on an input whose only target header precedes [Events], with a
\* line after the Events block
C11_Witness ==
    LET L == Layout IN
    /\ eof_in /\ EventsBlockRead(L) /\ L.t = 0
    /\ \E i \in 1..(L.e - 1) : FullMatch(lyric_chart_header, file_in[i])
    /\ Len(file_in) > L.c
    /\ L.c > L.e + 2

\* the chart of the example: the event 100 "test" and the notes (200, 1),
\* (250, 2), (300, 3)
ExampleChart == ChartOf(<<Line_Event100>>, <<Note_200_1, Note_250_2, Note_300_3>>)

\* the output the example gives: its Events section with the four events
ExampleOutput ==
    Line_Events \o Line_Open
        \o Line_Event100
        \o EventLine(<<"2", "0", "0">>, Text_phrase_start)
        \o EventLine(<<"2", "5", "0">>, Text_lyric)
        \o EventLine(<<"3", "0", "0">>, Text_phrase_end)
        \o Line_Close

(* C12: with the silent lyric source, no sequence of notes of lanes 1, 2 and  *)
(* 3 in a structurally valid chart causes a failure, each note gives its      *)
(* event, that of a lane-2 note with the text "lyric " exactly, and the chart *)
(* with the event 100 "test" and the notes (200, 1), (250, 2), (300, 3) gives *)
(* the events 100 test, 200 phrase_start, 250 "lyric ", 300 phrase_end in     *)
(* that order.                                                                *)
C12_SilentSourceNeverFails ==
    /\ pc # "error" /\ err = "none"
    /\ \A k \in DOMAIN calls : calls[k].err = "none" /\ calls[k].ret = <<>>
    /\ LET L == Layout
           at == LyricNotesAt(L)
       IN  /\ Len(calls) >= Len(at)
           /\ pc \in {"TargetBody", "Trailer", "done"} =>
                  LET der == [k \in 1..Len(at) |-> DerivedEvent(file_in[at[k]], <<>>)]
                  IN  /\ \A k \in 1..Len(at) :
                             NoteLane(file_in[at[k]]) = 2 => der[k].name = Text_lyric
                      /\ pc # "done" => global_events = PreExisting(L) \o der
                      /\ pc = "done" => OutputEvents = StableSorted(PreExisting(L) \o der)
    /\ (pc = "done" /\ chart_text.lines = ExampleChart) => file_out = ExampleOutput

\* a run without lyrics has succeeded on notes that are no phrase: a lane-2
\* note first, and three notes at least
C12_Witness ==
    /\ pc = "done"
    /\ lyric_file.kind = "dummy"
    /\ Len(calls) >= 4
    /\ calls[1].op = "next_syllable"
    /\ \E k \in DOMAIN global_events : global_events[k].name = Text_lyric

\* the pieces of s between the characters of seps, the empty ones included
Pieces(s, seps) ==
    LET cuts == Ascending({0, Len(s) + 1} \cup {i \in DOMAIN s : s[i] \in seps})
    IN  [k \in 1..(Len(cuts) - 1) |-> SubSeq(s, cuts[k] + 1, cuts[k + 1] - 1)]

\* s without the whitespace at its two ends
Trimmed(s) ==
    LET ink == {i \in DOMAIN s : s[i] \notin WS}
    IN  IF ink = {} THEN <<>>
        ELSE SubSeq(s, FirstOf(ink), CHOOSE i \in ink : \A j \in ink : j <= i)

\* the reference tokenization of a line: the words are the pieces of the
\* trimmed line between runs of whitespace, the syllables of a word its pieces
\* between hyphens, each but the last of the word with "-" appended
RefWords(line) == SelectSeq(Pieces(Trimmed(line), WS), LAMBDA w : w # <<>>)
RefSyllables(word) ==
    LET ps == Pieces(word, {"-"})
    IN  [k \in 1..Len(ps) |-> IF k < Len(ps) THEN Append(ps[k], "-") ELSE ps[k]]
RECURSIVE RefConcat(_)
RefConcat(lists) == IF lists = <<>> THEN <<>> ELSE Head(lists) \o RefConcat(Tail(lists))
Reference(line) ==
    LET ws == RefWords(line) IN RefConcat([k \in 1..Len(ws) |-> RefSyllables(ws[k])])

(* C13: for every non-blank lyric line over the alphabet of letters, spaces   *)
(* and hyphens, start_line enqueues exactly the reference tokenization of the *)
(* line.                                                                      *)
C13_StartLineEnqueuesReference ==
    calls # <<>> =>
        /\ calls[1].op = "start_line" /\ calls[1].err = "none"
        /\ lyric_file.syllable_buffer = Reference(lyric_text[1])

\* start_line has read a line of two words, one of them of two syllables,
\* between spaces
C13_Witness ==
    /\ calls # <<>>
    /\ Len(RefWords(lyric_text[1])) = 2
    /\ Len(lyric_file.syllable_buffer) = 3
    /\ Head(lyric_text[1]) = " "

(* C14: start_line skips every blank (empty or whitespace-only) line and      *)
(* loads syllables only from the next non-blank line: what a start_line call  *)
(* adds to the queue is the tokenization of the first remaining line that is  *)
(* not blank, and nothing when there is none, also when the last line is      *)
(* whitespace only and has no newline.                                        *)
C14_BlankLinesNeverLoad ==
    [][(pc = "lyric" /\ Len(calls') = Len(calls) + 1 /\ calls'[Len(calls')].op = "start_line") =>
           LET line == FirstNonBlank(lyric_file.file)
           IN  lyric_file'.syllable_buffer =
                   lyric_file.syllable_buffer
                       \o (IF line = <<>> THEN <<>> ELSE Reference(line))]_vars

(* C15: with a text-backed lyric source, in every reachable state the         *)
(* syllable queue is empty right after a phrase_end event is appended (a      *)
(* lane-3 note is accepted only with an empty queue), and it is empty once    *)
(* the transform has passed the end_file check.                               *)
C15_QueueEmptyAtPhraseEnd ==
    lyric_file.kind = "text" =>
        /\ (/\ pc = "TargetBody"
            /\ global_events # <<>>
            /\ global_events[Len(global_events)].name = Text_phrase_end)
               => lyric_file.syllable_buffer = <<>>
        /\ pc \in {"Trailer", "done"} =>
               /\ lyric_file.syllable_buffer = <<>>
               /\ calls # <<>>
               /\ calls[Len(calls)].op = "end_file" /\ calls[Len(calls)].err = "none"

\* a run with lyrics has closed a phrase of one syllable and passed end_file
C15_Witness ==
    /\ lyric_file.kind = "text"
    /\ pc = "Trailer"
    /\ Len(calls) >= 4
    /\ calls[2].op = "next_syllable"
    /\ \E k \in DOMAIN global_events : global_events[k].name = Text_phrase_end

\* the phases of convert_chart in their order, then its two ends
PhaseRank(p) ==
    CASE p = "Preamble" -> 1 [] p = "EventsOpen" -> 2 [] p = "EventsBody" -> 3
      [] p = "SeekTarget" -> 4 [] p = "TargetOpen" -> 5 [] p = "TargetBody" -> 6
      [] p = "Trailer" -> 7 [] p = "done" -> 8 [] p = "error" -> 9

\* convert_chart has returned or raised
Terminated == pc \in {"done", "error"}

\* a step reads the next line of the chart, or its end, once; it stays in its
\* phase, enters the next one, or ends the run
ForwardStep ==
    /\ ~Terminated /\ ~eof_in /\ err = "none"
    /\ \/ eof_in' /\ file_in' = file_in
       \/ ~eof_in' /\ Len(file_in') = Len(file_in) + 1
                   /\ SubSeq(file_in', 1, Len(file_in)) = file_in
    /\ chart_text.given => file_in' = SubSeq(chart_text.lines, 1, Len(file_in'))
    /\ \/ pc' = pc /\ err' = "none"
       \/ pc' = "error" /\ err' # "none"
       \/ PhaseRank(pc') = PhaseRank(pc) + 1 /\ pc' # "error" /\ err' = "none"
    /\ pc' = "done" => eof_in' /\ (chart_text.given => file_in' = chart_text.lines)

(* C16: on every finite chart and finite lyric file convert_chart terminates, *)
(* successfully after reading the chart to its end, or with one error; each   *)
(* line of the chart is read once, and the phases are entered in the order    *)
(* Preamble, EventsOpen, EventsBody, SeekTarget, TargetOpen, TargetBody,      *)
(* Trailer only, none entered again after a later one.                        *)
C16_TerminatesInPhaseOrder == <>Terminated /\ [][ForwardStep]_vars

\* a run on a chart given whole has gone through the seven phases, read all
\* the lines of the chart and its end, and returned
C16_Witness ==
    /\ pc = "done" /\ eof_in
    /\ chart_text.given /\ file_in = chart_text.lines
    /\ Len(file_in) = Len(ExampleChart)

\* the lines of the input that precede the [Events] header: all the lines read
\* when no header has been read
PreambleText ==
    LET e == EventsHeaderAt
    IN  InputLines(1, IF e = 0 THEN Len(file_in) ELSE e - 1)

(* C17: whenever convert_chart fails, in any phase and for a chart error or a *)
(* lyric error, the output holds only the lines that precede the [Events]     *)
(* header, as they were read: the new Events block and the stored text are    *)
(* written only once the whole input has been read and the end_file check has *)
(* passed, so that no partial Events block is ever written.                   *)
C17_FailureLeavesOnlyPreamble ==
    /\ pc # "done" => file_out = PreambleText
    /\ pc = "error" => err # "none"
    /\ pc = "done" =>
           /\ eof_in
           /\ calls # <<>>
           /\ calls[Len(calls)].op = "end_file" /\ calls[Len(calls)].err = "none"

\* a run with a line before [Events] and events in its buffer has failed on a
\* lyric error in the target section
C17_Witness ==
    /\ pc = "error" /\ err = "LineTooShort"
    /\ EventsHeaderAt = 2
    /\ file_out # <<>>
    /\ Len(global_events) >= 3

\* the syllables of a lyric file: the reference tokenizations of its lines that
\* are not blank, in file order
NonBlankLines(lines) == SelectSeq(lines, LAMBDA l : Trimmed(l) # <<>>)
AllSyllables(lines) ==
    LET nb == NonBlankLines(lines) IN RefConcat([k \in 1..Len(nb) |-> Reference(nb[k])])

\* is text the text of a lyric event ?
IsLyricText(text) == Len(text) >= Len(Text_lyric) /\ SubSeq(text, 1, Len(Text_lyric)) = Text_lyric

\* the texts of the lyric events a successful run has given, in note-line
\* order: the notes of lane 2 of the model share one tick, so that the sort
\* keeps their events in that order
LyricEventTexts ==
    LET out == OutputEvents
        names == [k \in 1..Len(out) |-> out[k].name]
    IN  SelectSeq(names, IsLyricText)

\* how many notes of a lane the target section held
NotesOfLane(L, lane) ==
    LET at == LyricNotesAt(L)
    IN  Cardinality({k \in DOMAIN at : NoteLane(file_in[at[k]]) = lane})

(* C18: with a text-backed lyric source, whenever convert_chart succeeds, the *)
(* texts of the lyric events in note-line order are "lyric " + s for each     *)
(* syllable s of the tokenizations of the non-blank lyric lines in file       *)
(* order; the lane-2 notes are as many as the syllables of the lyric file and *)
(* the lane-1 notes as many as its non-blank lines.                           *)
C18_LyricEventsAreTheFileSyllables ==
    (pc = "done" /\ lyric_file.kind = "text") =>
        LET L == Layout
            all == AllSyllables(lyric_text)
        IN  /\ LyricEventTexts = [k \in 1..Len(all) |-> Text_lyric \o all[k]]
            /\ NotesOfLane(L, 2) = Len(all)
            /\ NotesOfLane(L, 1) = Len(NonBlankLines(lyric_text))

(* C19: with a text-backed lyric source, a lane-1 note read when the lyric    *)
(* file has no remaining non-blank line aborts the transform with the error   *)
(* of start_line at the end of the file, and no phrase_start event is added   *)
(* for it; the start_line call that end_file makes, at the closing brace of   *)
(* the target section, is the one that tolerates the end of the file.         *)
C19_StartLineAtEndOfLyricsAborts ==
    [][(/\ pc = "TargetBody"
        /\ lyric_file.kind = "text"
        /\ FirstNonBlank(lyric_file.file) = <<>>) =>
           /\ IsNoteOfLanes(LineRead, {1}) =>
                  /\ pc' = "error" /\ err' = "NotEnoughLines"
                  /\ global_events' = global_events
           /\ (LineRead # <<>> /\ Strip(LineRead) = <<"}">> /\ lyric_file.syllable_buffer = <<>>) =>
                  /\ pc' = "Trailer" /\ err' = "none"]_vars

====
